---- MODULE Spec2Model ----
(***************************************************************************)
(* Model of the client-side markdown rendering pipeline of                 *)
(* js/markdown-viewer.js: DOMContentLoaded handler, fetch promise chain,   *)
(* markdown rendering, post-processing stages, capability triggers, TOC    *)
(* generation and the catch handler.                                       *)
(***************************************************************************)
EXTENDS Integers, Sequences, FiniteSets, TLC

\* ---------------------------------------------------------------- bounds
MaxBlocks == 2
MaxRichBlocks == 2

\* ------------------------------------------------------------ characters
Lower == <<"a","b","c","d","e","f","g","h","i","j","k","l","m",
           "n","o","p","q","r","s","t","u","v","w","x","y","z">>
Upper == <<"A","B","C","D","E","F","G","H","I","J","K","L","M",
           "N","O","P","Q","R","S","T","U","V","W","X","Y","Z">>
Digits == {"0","1","2","3","4","5","6","7","8","9"}

Range(s) == {s[i] : i \in 1..Len(s)}

\* \s of the regular expressions
IsSpace(c) == c \in {" ", "\t", "\n"}

\* variant: [a-zA-Z0-9-], the underscore is not kept
IsAlnumOrDash(c) == c \in Range(Lower) \cup Range(Upper) \cup Digits \cup {"-"}

\* [\w-] of the regular expression: letters, digits, underscore, hyphen
IsWordOrDash(c) == c \in Range(Lower) \cup Range(Upper) \cup Digits \cup {"_", "-"}

\* String.prototype.toLowerCase on one character
ToLowerChar(c) ==
  IF c \in Range(Upper)
    THEN Lower[CHOOSE i \in 1..Len(Upper) : Upper[i] = c]
    ELSE c

\* String.prototype.trim
RECURSIVE TrimLeft(_)
TrimLeft(s) ==
  IF s = <<>> THEN <<>>
  ELSE IF IsSpace(Head(s)) THEN TrimLeft(Tail(s)) ELSE s

RECURSIVE TrimRight(_)
TrimRight(s) ==
  IF s = <<>> THEN <<>>
  ELSE IF IsSpace(s[Len(s)]) THEN TrimRight(SubSeq(s, 1, Len(s) - 1)) ELSE s

Trim(s) == TrimRight(TrimLeft(s))

\* .replace(/\s+/g, "-"): every maximal whitespace run becomes one hyphen
RECURSIVE ReplaceSpaceRuns(_)
ReplaceSpaceRuns(s) ==
  IF s = <<>> THEN <<>>
  ELSE IF IsSpace(Head(s))
    THEN <<"-">> \o ReplaceSpaceRuns(TrimLeft(s))
    ELSE <<Head(s)>> \o ReplaceSpaceRuns(Tail(s))

\* .replace(/[^\w-]/g, "")
StripNonWord(s) == SelectSeq(s, IsWordOrDash)

\* .toLowerCase()
ToLowerCase(s) == [i \in 1..Len(s) |-> ToLowerChar(s[i])]

\* the slug expression of the heading id
Slug(text) == ToLowerCase(StripNonWord(ReplaceSpaceRuns(Trim(text))))

\* ------------------------------------------------------- fetched document
\* The markdown text is represented by its block structure: headings,
\* fenced code blocks and tables, in document order.
Hi == <<"H", "i">>
Graph == <<"g", "r", "a", "p", "h">>
ABang == <<" ", "A", " ", " ", "b", "!">>
MermaidTag == <<"m","e","r","m","a","i","d">>
JavaTag == <<"j","a","v","a">>

MdHeading(level, text) ==
  [kind |-> "heading", level |-> level, text |-> text, id |-> <<>>,
   lang |-> <<>>, rows |-> 0]
\* a heading written as raw HTML with an id attribute, <hN id="ID">
MdHtmlHeading(level, text, id) ==
  [MdHeading(level, text) EXCEPT !.id = id]
MdFence(lang, text) ==
  [kind |-> "fence", level |-> 0, text |-> text, id |-> <<>>,
   lang |-> lang, rows |-> 0]
MdTable(rows) ==
  [kind |-> "table", level |-> 0, text |-> <<>>, id |-> <<>>,
   lang |-> <<>>, rows |-> rows]

Blocks ==
  { MdHeading(1, Hi), MdHeading(2, Hi), MdHeading(3, ABang), MdHeading(4, Hi),
    MdFence(MermaidTag, Graph), MdFence(JavaTag, Graph), MdTable(3) }

RECURSIVE SeqsUpTo(_, _)
SeqsUpTo(S, n) ==
  IF n = 0 THEN {<<>>}
  ELSE LET shorter == SeqsUpTo(S, n - 1)
       IN shorter \cup {Append(d, b) : d \in {x \in shorter : Len(x) = n - 1}, b \in S}

Docs == SeqsUpTo(Blocks, MaxBlocks)

\* documents with the heading texts, ids and language tags that the id
\* derivation and the block selectors distinguish
UnderB == <<"a", "_", "B">>
Marks == <<"!", "?">>
IdX == <<"x">>
MermaidCapTag == <<"M","e","r","m","a","i","d">>

RichBlocks ==
  { MdHeading(1, Hi), MdHeading(2, UnderB), MdHeading(3, ABang),
    MdHeading(2, Marks), MdHtmlHeading(2, Hi, IdX), MdHeading(4, Hi),
    MdFence(MermaidTag, Graph), MdFence(MermaidCapTag, Graph) }

RichDocs == SeqsUpTo(RichBlocks, MaxRichBlocks)

\* container.dataset.file: a document reference, or undefined, which
\* fetch(file) turns into the relative URL "undefined"
ContentFile == "content.md"
NoFile == "undefined"
Files == {ContentFile, NoFile}

\* HTTP statuses a response can carry
Statuses == {200, 404, 500}

\* ------------------------------------------------------------ DOM elements
Element(kind) ==
  [kind |-> kind, level |-> 0, text |-> <<>>, id |-> <<>>, cls |-> <<>>,
   hl |-> FALSE, rows |-> 0, styled |-> FALSE, cellBorders |-> FALSE,
   headShaded |-> FALSE, shaded |-> {}, detail |-> ""]

LanguageClass(lang) == <<"l","a","n","g","u","a","g","e","-">> \o lang

\* marked.parse(md): one element per block; a fenced block becomes
\* <pre><code class="language-LANG">, a heading <hN> that has an id only
\* when it was written as raw HTML with one
ParseBlock(b) ==
  CASE b.kind = "heading" ->
         [Element("h") EXCEPT !.level = b.level, !.text = b.text, !.id = b.id]
    [] b.kind = "fence" ->
         [Element("pre") EXCEPT !.cls = LanguageClass(b.lang), !.text = b.text]
    [] b.kind = "table" ->
         [Element("table") EXCEPT !.rows = b.rows]

Parse(doc) == [i \in 1..Len(doc) |-> ParseBlock(doc[i])]

\* ---------------------------------------------------------------- state
VARIABLES
  hasContainer,  \* #markdown-container exists
  file,          \* container.dataset.file, NoFile when the attribute is not set
  hasTocAuto,    \* #toc-content-auto exists
  hasTocNav,     \* #TableOfContents exists
  hasMarked,     \* global marked is defined
  hasHljs,       \* global hljs is defined
  hasMermaid,    \* window.mermaid is truthy
  hasMathJax,    \* window.MathJax is truthy
  pc,            \* position in the promise chain
  res,           \* status of the response, 0 when there is none
  md,            \* resolved document text
  err,           \* rejection reason travelling to the catch handler
  transportFailed, \* fetch(file) or res.text() rejected at transport level
  container,     \* children of #markdown-container
  nav,           \* children of #TableOfContents
  log,           \* operations executed so far, in order
  highlighted,   \* code blocks handed to the highlighter
  outside,       \* elements of the page outside both targets
  mermaidRun,    \* promise returned by mermaid.run
  typeset        \* promise returned by MathJax.typesetPromise

page == <<hasContainer, file, hasTocAuto, hasTocNav>>
caps == <<hasMarked, hasHljs, hasMermaid, hasMathJax>>
vars == <<page, caps, pc, res, md, err, transportFailed, container, nav, log,
          highlighted, outside, mermaidRun, typeset>>

NoErr == ""

\* content of the container as the host page provides it
HostContainer == <<Element("host")>>

\* a code block of the host page outside the container
HostOutside ==
  <<[Element("pre") EXCEPT !.cls = LanguageClass(JavaTag), !.text = Graph]>>

\* content of the navigation landmark as the host page provides it
HostNav == <<[kind |-> "host", items |-> <<>>]>>

Init ==
  /\ hasContainer \in BOOLEAN
  /\ file \in Files
  /\ hasTocAuto \in BOOLEAN
  /\ hasTocNav \in BOOLEAN
  /\ hasMarked \in BOOLEAN
  /\ hasHljs \in BOOLEAN
  /\ hasMermaid \in BOOLEAN
  /\ hasMathJax \in BOOLEAN
  /\ pc = "loading"
  /\ res = 0
  /\ md = <<>>
  /\ err = NoErr
  /\ transportFailed = FALSE
  /\ container = HostContainer
  /\ nav = HostNav
  /\ log = <<>>
  /\ highlighted = {}
  /\ outside = HostOutside
  /\ mermaidRun = "none"
  /\ typeset = "none"

\* ---------------------------------------------------------- fetch chain
\* variant: only server errors count as failures
ResOkBelow500(status) == status \in 200..499

\* Response.ok
ResOk(status) == status \in 200..299

\* new Error(`HTTP ${res.status}`), as String(err) prints it
HttpError(status) == "Error: HTTP " \o ToString(status)

\* variant: the early return for a missing container is absent
DOMContentLoadedNoReturn ==
  /\ pc = "loading"
  /\ pc' = "fetching"
  /\ log' = Append(log, "fetch")
  /\ UNCHANGED <<page, caps, res, md, err, transportFailed, container, nav,
                 highlighted, outside, mermaidRun, typeset>>

\* document.addEventListener("DOMContentLoaded", ...)
DOMContentLoaded ==
  /\ pc = "loading"
  /\ IF ~hasContainer
       THEN /\ pc' = "done"
            /\ log' = log
       ELSE /\ pc' = "fetching"
            /\ log' = Append(log, "fetch")
  /\ UNCHANGED <<page, caps, res, md, err, transportFailed, container, nav,
                 highlighted, outside, mermaidRun, typeset>>

\* the promise of fetch(file) settles: a response of some status, or a
\* transport-level rejection
FetchSettles ==
  /\ pc = "fetching"
  /\ \/ \E status \in Statuses :
          /\ res' = status
          /\ pc' = "then1"
          /\ UNCHANGED <<err, transportFailed>>
     \/ /\ err' = "TypeError: Failed to fetch"
        /\ transportFailed' = TRUE
        /\ pc' = "catch"
        /\ res' = res
  /\ UNCHANGED <<page, caps, md, container, nav, log, highlighted, outside, mermaidRun,
                 typeset>>

\* variant: the status check is missing, the body is always read
ThenResponseNoThrow ==
  /\ pc = "then1"
  /\ pc' = "reading"
  /\ UNCHANGED <<page, caps, res, md, err, transportFailed, container, nav, log,
                 highlighted, outside, mermaidRun, typeset>>

\* .then(res => { if (!res.ok) throw ...; return res.text(); })
ThenResponse ==
  /\ pc = "then1"
  /\ IF ~ResOk(res)
       THEN /\ err' = HttpError(res)
            /\ pc' = "catch"
       ELSE /\ pc' = "reading"
            /\ err' = err
  /\ UNCHANGED <<page, caps, res, md, transportFailed, container, nav, log,
                 highlighted, outside, mermaidRun, typeset>>

\* the promise of res.text() settles: the document, or a rejection while
\* the body is read
TextSettles ==
  /\ pc = "reading"
  /\ \/ \E doc \in Docs :
          /\ md' = doc
          /\ pc' = "then2"
          /\ UNCHANGED <<err, transportFailed>>
     \/ /\ err' = "TypeError: Failed to fetch"
        /\ transportFailed' = TRUE
        /\ pc' = "catch"
        /\ md' = md
  /\ UNCHANGED <<page, caps, res, container, nav, log, highlighted, outside, mermaidRun,
                 typeset>>

\* ------------------------------------------------------------- the stages
\* Calls of external capabilities that can throw when reached.
ThrowPoints == {"none", "highlight", "mermaidInit", "mermaidRun", "typeset"}

Throw(s, reason) == [s EXCEPT !.err = reason]
Did(s, what) == [s EXCEPT !.log = Append(@, what)]

IsCodeBlock(e) == e.kind = "pre"
\* variant: the class is compared without regard to letter case
IsMermaidBlockAnyCase(e) ==
  e.kind = "pre" /\ ToLowerCase(e.cls) = LanguageClass(MermaidTag)
IsMermaidBlock(e) == e.kind = "pre" /\ e.cls = LanguageClass(MermaidTag)
\* variant: every heading level is scanned
IsTocHeadingAnyLevel(e) == e.kind = "h"
IsTocHeading(e) == e.kind = "h" /\ e.level \in {1, 2, 3}

\* variant: rendering is skipped when marked is missing
StepRenderSkip(s) ==
  IF ~hasMarked THEN s
  ELSE [Did(s, "render") EXCEPT !.container = Parse(md)]

\* 1: container.innerHTML = marked.parse(md)
StepRender(s) ==
  IF ~hasMarked THEN Throw(s, "ReferenceError: marked is not defined")
  ELSE [Did(s, "render") EXCEPT !.container = Parse(md)]

\* hljs.highlightAll(): every <pre><code> of the document is highlighted
HighlightAll(elems) ==
  [i \in 1..Len(elems) |->
     IF IsCodeBlock(elems[i]) THEN [elems[i] EXCEPT !.hl = TRUE] ELSE elems[i]]

\* 2: hljs.highlightAll()
StepHighlight(s, t) ==
  IF s.err # NoErr THEN s
  ELSE IF ~hasHljs THEN Throw(s, "ReferenceError: hljs is not defined")
  ELSE IF t = "highlight" THEN Throw(Did(s, "highlight"), "Error: highlight")
  ELSE [Did(s, "highlight") EXCEPT
          !.container = HighlightAll(s.container),
          !.outside = HighlightAll(s.outside),
          !.highlighted = {e \in Range(s.container) \cup Range(s.outside) : IsCodeBlock(e)}]

\* the <div class="mermaid"> that replaces the <pre> of a mermaid block
MermaidDiv(block) ==
  [Element("div") EXCEPT !.cls = MermaidTag, !.text = block.text]

\* variant: the selector is 'pre code', every code block is converted
ConvertMermaidAllCode(elems) ==
  [i \in 1..Len(elems) |->
     IF IsCodeBlock(elems[i]) THEN MermaidDiv(elems[i]) ELSE elems[i]]

ConvertMermaid(elems) ==
  [i \in 1..Len(elems) |->
     IF IsMermaidBlock(elems[i]) THEN MermaidDiv(elems[i]) ELSE elems[i]]

\* 3: convert mermaid fenced code blocks
StepConvert(s) ==
  IF s.err # NoErr THEN s
  ELSE [Did(s, "convert") EXCEPT !.container = ConvertMermaid(s.container)]

\* variant: tr:nth-child(odd)
ShadedRowsOdd(rows) == {r \in 1..rows : r % 2 = 1}

\* tr:nth-child(even): 1-based position of the row among its siblings; the
\* header row is the only child of <thead>, body rows are children of <tbody>
ShadedRows(rows) == {r \in 1..rows : r % 2 = 0}

\* the forEach callback of one table: the inline border and width of the
\* table, the border of every th/td, the shading of the selected rows of
\* <thead> (one row) and <tbody>
StyleTable(tbl) ==
  [tbl EXCEPT !.styled = TRUE,
              !.cellBorders = TRUE,
              !.headShaded = (1 \in ShadedRows(1)),
              !.shaded = ShadedRows(tbl.rows)]

\* variant: querySelector instead of querySelectorAll, only the first table
StyleTablesFirstOnly(elems) ==
  [i \in 1..Len(elems) |->
     IF elems[i].kind = "table" /\ \A j \in 1..(i - 1) : elems[j].kind # "table"
       THEN StyleTable(elems[i]) ELSE elems[i]]

StyleTables(elems) ==
  [i \in 1..Len(elems) |->
     IF elems[i].kind = "table" THEN StyleTable(elems[i]) ELSE elems[i]]

\* 4: table styling
StepTables(s) ==
  IF s.err # NoErr THEN s
  ELSE [Did(s, "tables") EXCEPT !.container = StyleTables(s.container)]

\* 5: if (window.mermaid) { mermaid.initialize(...); mermaid.run(...) }
StepMermaid(s, t) ==
  IF s.err # NoErr \/ ~hasMermaid THEN s
  ELSE IF t = "mermaidInit" THEN Throw(Did(s, "mermaidInit"), "Error: mermaid.initialize")
  ELSE IF t = "mermaidRun"
    THEN Throw(Did(Did(s, "mermaidInit"), "mermaidRun"), "Error: mermaid.run")
  ELSE [Did(Did(s, "mermaidInit"), "mermaidRun") EXCEPT !.mermaidRun = "pending"]

\* variant: the window.MathJax guard is missing
StepMathJaxUnguarded(s, t) ==
  IF s.err # NoErr THEN s
  ELSE IF ~hasMathJax
    THEN Throw(s, "TypeError: Cannot read properties of undefined")
  ELSE IF t = "typeset"
    THEN Throw(s, "TypeError: window.MathJax.typesetPromise is not a function")
  ELSE [Did(s, "typeset") EXCEPT !.typeset = "pending"]

\* 6: if (window.MathJax) window.MathJax.typesetPromise()
StepMathJax(s, t) ==
  IF s.err # NoErr \/ ~hasMathJax THEN s
  ELSE IF t = "typeset"
    THEN Throw(s, "TypeError: window.MathJax.typesetPromise is not a function")
  ELSE [Did(s, "typeset") EXCEPT !.typeset = "pending"]

\* variant: an id that is already there is taken for a collision and numbered
HeadingIdNumbered(h) == IF h.id # <<>> THEN h.id \o <<"-", "1">> ELSE Slug(h.text)

\* h.id || slug of h.textContent
HeadingId(h) == IF h.id # <<>> THEN h.id ELSE Slug(h.text)

\* h.id = headingId, for every scanned heading
AssignIds(elems) ==
  [i \in 1..Len(elems) |->
     IF IsTocHeading(elems[i]) THEN [elems[i] EXCEPT !.id = HeadingId(elems[i])]
     ELSE elems[i]]

\* variant: the active mark is given to the entry of index 1
TocEntryActiveSecond(h, idx) ==
  [label |-> h.text, href |-> <<"#">> \o HeadingId(h), active |-> (idx = 1)]

\* the <li><a> built for the heading at position idx (zero-based) of the scan
TocEntry(h, idx) ==
  [label |-> h.text, href |-> <<"#">> \o HeadingId(h), active |-> (idx = 0)]

\* the <ul> built from the scanned headings
BuildToc(headings) ==
  [kind |-> "ul",
   items |-> [k \in 1..Len(headings) |-> TocEntry(headings[k], k - 1)]]

\* markdownContainer.querySelectorAll("h1, h2, h3")
ScanHeadings(elems) == SelectSeq(elems, IsTocHeading)

\* variant: the list is built and injected without testing tocNav
StepTocUnguardedNav(s) ==
  IF s.err # NoErr THEN s
  ELSE IF ~(hasTocAuto /\ hasContainer) THEN Did(s, "tocStart")
  ELSE LET scanned == Did(Did(s, "tocStart"), "tocScan")
           headings == ScanHeadings(s.container)
       IN IF Len(headings) > 0
            THEN IF hasTocNav
                   THEN [Did(scanned, "tocBuild") EXCEPT
                           !.container = AssignIds(s.container),
                           !.nav = <<BuildToc(headings)>>]
                   ELSE [Throw(Did(scanned, "tocBuild"),
                               "TypeError: Cannot set properties of null") EXCEPT
                           !.container = AssignIds(s.container)]
            ELSE scanned

\* variant: the built list is appended to the existing content
StepTocAppend(s) ==
  IF s.err # NoErr THEN s
  ELSE IF ~(hasTocAuto /\ hasContainer) THEN Did(s, "tocStart")
  ELSE LET scanned == Did(Did(s, "tocStart"), "tocScan")
           headings == ScanHeadings(s.container)
       IN IF hasTocNav /\ Len(headings) > 0
            THEN [Did(scanned, "tocBuild") EXCEPT
                    !.container = AssignIds(s.container),
                    !.nav = Append(s.nav, BuildToc(headings))]
            ELSE scanned

\* variant: the first heading is used without testing headings.length
StepTocUnguardedLength(s) ==
  IF s.err # NoErr THEN s
  ELSE IF ~(hasTocAuto /\ hasContainer) THEN Did(s, "tocStart")
  ELSE LET scanned == Did(Did(s, "tocStart"), "tocScan")
           headings == ScanHeadings(s.container)
       IN IF hasTocNav /\ Len(headings) = 0
            THEN Throw(scanned, "TypeError: Cannot read properties of undefined")
          ELSE IF hasTocNav
            THEN [Did(scanned, "tocBuild") EXCEPT
                    !.container = AssignIds(s.container),
                    !.nav = <<BuildToc(headings)>>]
            ELSE scanned

\* variant: the list is built and injected without testing tocAuto
StepTocIgnoreWrapper(s) ==
  IF s.err # NoErr THEN s
  ELSE LET scanned == Did(Did(s, "tocStart"), "tocScan")
           headings == ScanHeadings(s.container)
       IN IF hasTocNav /\ Len(headings) > 0
            THEN [Did(scanned, "tocBuild") EXCEPT
                    !.container = AssignIds(s.container),
                    !.nav = <<BuildToc(headings)>>]
            ELSE scanned

\* variant: the ids are assigned to the scanned headings before tocNav is tested
StepTocAssignFirst(s) ==
  IF s.err # NoErr THEN s
  ELSE IF ~(hasTocAuto /\ hasContainer) THEN Did(s, "tocStart")
  ELSE LET scanned == [Did(Did(s, "tocStart"), "tocScan") EXCEPT
                         !.container = AssignIds(s.container)]
           headings == ScanHeadings(s.container)
       IN IF hasTocNav /\ Len(headings) > 0
            THEN [Did(scanned, "tocBuild") EXCEPT !.nav = <<BuildToc(headings)>>]
            ELSE scanned

\* 7: dynamic TOC generation
StepToc(s) ==
  IF s.err # NoErr THEN s
  ELSE IF ~(hasTocAuto /\ hasContainer) THEN Did(s, "tocStart")
  ELSE LET scanned == Did(Did(s, "tocStart"), "tocScan")
           headings == ScanHeadings(s.container)
       IN IF hasTocNav /\ Len(headings) > 0
            THEN [Did(scanned, "tocBuild") EXCEPT
                    !.container = AssignIds(s.container),
                    !.nav = <<BuildToc(headings)>>]
            ELSE scanned

\* variant: the TOC is generated right after rendering, before the stages
RunBodyTocBeforeHighlight(s, t) ==
  StepMathJax(StepMermaid(StepTables(StepConvert(
    StepHighlight(StepToc(StepRender(s)), t))), t), t)

\* variant: the TOC is generated only once the typesetting has completed
RunBodyAwaitTypeset(s, t) ==
  LET typesetting == StepMathJax(StepMermaid(StepTables(StepConvert(
                       StepHighlight(StepRender(s), t))), t), t)
  IN IF typesetting.typeset = "pending" THEN typesetting ELSE StepToc(typesetting)

\* variant: the mermaid blocks are converted before highlighting
RunBodyConvertFirst(s, t) ==
  StepToc(StepMathJax(StepMermaid(StepTables(StepHighlight(
    StepConvert(StepRender(s)), t)), t), t))

\* variant: the body ends after the stages, the TOC is left to a later task
RunBodyDeferToc(s, t) ==
  StepMathJax(StepMermaid(StepTables(StepConvert(
    StepHighlight(StepRender(s), t))), t), t)

\* variant: the TOC is generated before the tables are styled
RunBodyTocBeforeTables(s, t) ==
  StepMathJax(StepMermaid(StepTables(StepToc(StepConvert(
    StepHighlight(StepRender(s), t)))), t), t)

\* the body of .then(md => ...): the steps in source order, each applied to
\* the page the previous one left, a throw skipping everything after it
RunBody(s, t) ==
  CHOOSE last \in
    { StepToc(s6) : s6 \in
      { StepMathJax(s5, t) : s5 \in
        { StepMermaid(s4, t) : s4 \in
          { StepTables(s3) : s3 \in
            { StepConvert(s2) : s2 \in
              { StepHighlight(s1, t) : s1 \in {StepRender(s)} } } } } } } : TRUE

ThenMarkdown ==
  /\ pc = "then2"
  /\ \E t \in ThrowPoints :
       LET s0 == [container |-> container, nav |-> nav, log |-> log,
                  highlighted |-> highlighted, outside |-> outside,
                  mermaidRun |-> mermaidRun, typeset |-> typeset, err |-> NoErr]
       IN \E s \in {RunBody(s0, t)} :
          /\ container' = s.container
          /\ nav' = s.nav
          /\ log' = s.log
          /\ highlighted' = s.highlighted
          /\ outside' = s.outside
          /\ mermaidRun' = s.mermaidRun
          /\ typeset' = s.typeset
          /\ err' = s.err
          /\ pc' = IF s.err = NoErr THEN "done" ELSE "catch"
  /\ UNCHANGED <<page, caps, res, md, transportFailed>>

\* the <p style="color:red"> written by the catch handler
ErrorMessage(reason) ==
  [Element("error") EXCEPT !.detail = "Failed to load markdown: " \o reason]

\* variant: the catch handler only logs, nothing is written to the page
CatchSilent ==
  /\ pc = "catch"
  /\ log' = Append(log, "error")
  /\ pc' = "done"
  /\ UNCHANGED <<page, caps, res, md, err, transportFailed, container, nav,
                 highlighted, outside, mermaidRun, typeset>>

\* variant: the message is appended to the content of the container
CatchAppend ==
  /\ pc = "catch"
  /\ container' = Append(container, ErrorMessage(err))
  /\ log' = Append(log, "error")
  /\ pc' = "done"
  /\ UNCHANGED <<page, caps, res, md, err, transportFailed, nav, highlighted, outside,
                 mermaidRun, typeset>>

\* variant: the catch handler starts the fetch again
CatchRetry ==
  /\ pc = "catch"
  /\ container' = <<ErrorMessage(err)>>
  /\ log' = Append(Append(log, "error"), "fetch")
  /\ pc' = "fetching"
  /\ UNCHANGED <<page, caps, res, md, err, transportFailed, nav, highlighted, outside,
                 mermaidRun, typeset>>

\* .catch(err => { container.innerHTML = ...; console.error(err) })
Catch ==
  /\ pc = "catch"
  /\ container' = <<ErrorMessage(err)>>
  /\ log' = Append(log, "error")
  /\ pc' = "done"
  /\ UNCHANGED <<page, caps, res, md, err, transportFailed, nav, highlighted, outside,
                 mermaidRun, typeset>>

\* variant: the promise of mermaid.run is returned from the then callback,
\* its rejection reaches the catch handler
MermaidSettlesChained ==
  /\ mermaidRun = "pending"
  /\ \/ /\ mermaidRun' = "fulfilled"
        /\ UNCHANGED <<pc, err>>
     \/ /\ mermaidRun' = "rejected"
        /\ err' = "Error: mermaid render"
        /\ pc' = "catch"
  /\ UNCHANGED <<page, caps, res, md, transportFailed, container, nav, log,
                 highlighted, outside, typeset>>

\* the promise of mermaid.run settles; nothing is chained on it
MermaidSettles ==
  /\ mermaidRun = "pending"
  /\ \E outcome \in {"fulfilled", "rejected"} : mermaidRun' = outcome
  /\ UNCHANGED <<page, caps, pc, res, md, err, transportFailed, container, nav, log,
                 highlighted, outside, typeset>>

\* variant: a handler chained on typesetPromise restores the nav when the
\* typesetting fails
TypesetSettlesResetsNav ==
  /\ typeset = "pending"
  /\ \E outcome \in {"fulfilled", "rejected"} :
       /\ typeset' = outcome
       /\ nav' = IF outcome = "rejected" THEN HostNav ELSE nav
  /\ UNCHANGED <<page, caps, pc, res, md, err, transportFailed, container, log,
                 highlighted, outside, mermaidRun>>

\* the promise of MathJax.typesetPromise settles; nothing is chained on it
TypesetSettles ==
  /\ typeset = "pending"
  /\ \E outcome \in {"fulfilled", "rejected"} : typeset' = outcome
  /\ UNCHANGED <<page, caps, pc, res, md, err, transportFailed, container, nav, log,
                 highlighted, outside, mermaidRun>>

Next ==
  \/ DOMContentLoaded
  \/ FetchSettles
  \/ ThenResponse
  \/ TextSettles
  \/ ThenMarkdown
  \/ Catch
  \/ MermaidSettles
  \/ TypesetSettles

Spec == Init /\ [][Next]_vars

\* ------------------------------------------------------------ scheduling
\* The event loop runs every callback that is ready: the DOMContentLoaded
\* handler, the two then callbacks and the catch callback. The fetch and the
\* reading of the body are taken to settle. Nothing makes the promises of
\* mermaid.run and typesetPromise settle.
\* At most one of these steps is enabled at a time (each tests pc).
PipelineStep ==
  \/ DOMContentLoaded
  \/ FetchSettles
  \/ ThenResponse
  \/ TextSettles
  \/ ThenMarkdown
  \/ Catch

Fairness == WF_vars(PipelineStep)

\* A page with the Render Target and a document reference; the TOC
\* elements, the renderer and the capabilities may be missing.
InitLive ==
  /\ Init
  /\ hasContainer /\ file = ContentFile

SpecLive == InitLive /\ [][Next]_vars /\ Fairness

\* ------------------------------------------------- page with every target
\* A page that has both targets and all capabilities, loading a document
\* drawn from RichDocs.
InitRich ==
  /\ Init
  /\ hasContainer /\ file = ContentFile /\ hasTocAuto /\ hasTocNav
  /\ hasMarked /\ hasHljs /\ hasMermaid /\ hasMathJax

TextSettlesRich ==
  /\ pc = "reading"
  /\ \/ \E doc \in RichDocs :
          /\ md' = doc
          /\ pc' = "then2"
          /\ UNCHANGED <<err, transportFailed>>
     \/ /\ err' = "TypeError: Failed to fetch"
        /\ transportFailed' = TRUE
        /\ pc' = "catch"
        /\ md' = md
  /\ UNCHANGED <<page, caps, res, container, nav, log, highlighted, outside,
                 mermaidRun, typeset>>

NextRich ==
  \/ DOMContentLoaded
  \/ FetchSettles
  \/ ThenResponse
  \/ TextSettlesRich
  \/ ThenMarkdown
  \/ Catch
  \/ MermaidSettles
  \/ TypesetSettles

SpecRich == InitRich /\ [][NextRich]_vars

\* ================================================================ claims
Ran(what) == \E i \in 1..Len(log) : log[i] = what
Pos(what) == CHOOSE i \in 1..Len(log) : log[i] = what
Count(what) == Cardinality({i \in 1..Len(log) : log[i] = what})
Before(a, b) == Ran(a) /\ Ran(b) /\ Pos(a) < Pos(b)

StageEvents ==
  {"render", "highlight", "convert", "tables", "mermaidInit", "mermaidRun",
   "typeset", "tocStart", "tocScan", "tocBuild"}

ErrorMessages == {i \in 1..Len(container) : container[i].kind = "error"}

RECURSIVE CountItems(_)
CountItems(nodes) ==
  IF nodes = <<>> THEN 0 ELSE Len(Head(nodes).items) + CountItems(Tail(nodes))

TocEntryCount == CountItems(nav)

NonSuccess == res # 0 /\ (res < 200 \/ res > 299)
FetchFailure == NonSuccess \/ transportFailed
Delivered == hasContainer /\ pc \in {"then2", "catch", "done"} /\ ~FetchFailure

CapabilityErrors ==
  {"Error: highlight", "Error: mermaid.initialize", "Error: mermaid.run",
   "TypeError: window.MathJax.typesetPromise is not a function"}

SuccessfulPass == pc = "done" /\ Ran("render") /\ ~Ran("error")

\* C1: after TOC synthesis the ids of the level-1/2/3 headings are pairwise
\* distinct and so are the hrefs of the TOC entries, also for headings that
\* share their text.
C1_DistinctIds ==
  (Ran("tocBuild") /\ ErrorMessages = {}) =>
    LET hs == ScanHeadings(container)
        items == nav[1].items
    IN /\ \A i, j \in 1..Len(hs) : i # j => hs[i].id # hs[j].id
       /\ \A i, j \in 1..Len(items) : i # j => items[i].href # items[j].href

\* C2: when the fetch returns a non-success status or fails at transport
\* level, the final state has exactly one visible error message in the
\* Render Target and zero TOC entries in the Navigation Target.
C2_FetchFailureShowsOneError ==
  (pc = "done" /\ FetchFailure) =>
    /\ Cardinality(ErrorMessages) = 1
    /\ Len(container) = 1
    /\ TocEntryCount = 0

C2_Witness ==
  /\ pc = "done"
  /\ res = 404
  /\ hasTocAuto /\ hasTocNav /\ hasMarked /\ hasHljs
  /\ container = <<ErrorMessage("Error: HTTP 404")>>

\* C3: after a fetch failure no rendering, highlighting, diagram conversion,
\* table styling, diagram-render or typesetting trigger and no TOC synthesis
\* ever executes.
C3_NoStageAfterFetchFailure ==
  FetchFailure => \A i \in 1..Len(log) : log[i] \notin StageEvents

C3_Witness ==
  /\ pc = "done"
  /\ res = 500
  /\ hasMarked /\ hasHljs /\ hasMermaid /\ hasMathJax /\ hasTocAuto /\ hasTocNav
  /\ log = <<"fetch", "error">>

\* C4: if a post-processing stage throws, every later stage and TOC
\* synthesis still run.
C4_ThrowDoesNotStopLaterStages ==
  (pc = "done" /\ Ran("render") /\ err # NoErr) =>
    Ran("convert") /\ Ran("tables") /\ Ran("tocStart")

\* C5: when an optional capability (highlighter, diagram renderer, math
\* typesetter) is not loaded, only its stage is skipped: every later stage
\* and TOC synthesis complete and the Render Target holds the rendered
\* document.
C5_AbsentCapabilityIsSkipped ==
  (pc = "done" /\ Delivered /\ hasMarked /\ err \notin CapabilityErrors) =>
    /\ ErrorMessages = {}
    /\ Ran("convert") /\ Ran("tables") /\ Ran("tocStart")

\* C6: the visible error message appears only when the fetch failed or the
\* markup renderer is missing; never for a failing or unavailable
\* post-processing stage or a missing target.
C6_ErrorOnlyForFetchOrRenderer ==
  ErrorMessages # {} => (FetchFailure \/ ~hasMarked)

\* C7: with the markup renderer missing and the fetch successful, no stage
\* runs and the final state is that of a fetch failure: the error message in
\* the Render Target, no TOC synthesized.
C7_RendererMissingIsFatal ==
  (pc = "done" /\ Delivered /\ ~hasMarked) =>
    /\ Cardinality(ErrorMessages) = 1
    /\ Len(container) = 1
    /\ \A i \in 1..Len(log) : log[i] \notin StageEvents
    /\ nav = HostNav

C7_Witness ==
  /\ pc = "done"
  /\ Delivered
  /\ ~hasMarked
  /\ hasHljs /\ hasTocAuto /\ hasTocNav
  /\ Len(md) > 0
  /\ container = <<ErrorMessage("ReferenceError: marked is not defined")>>

\* C8: a diagram-tagged code block is never handed to the syntax
\* highlighter.
C8_DiagramBlockNeverHighlighted ==
  \A e \in highlighted : ~IsMermaidBlock(e)

\* C9: the headings are scanned only after highlighting, diagram conversion
\* and table styling have completed, and every TOC label is the text of its
\* heading as it stands after these stages.
C9_TocAfterStageSet ==
  /\ Ran("tocScan") =>
       /\ Before("highlight", "tocScan")
       /\ Before("convert", "tocScan")
       /\ Before("tables", "tocScan")
       /\ Before("tables", "tocStart")
  /\ (Ran("tocBuild") /\ ErrorMessages = {}) =>
       LET hs == ScanHeadings(container)
           items == nav[1].items
       IN /\ Len(items) = Len(hs)
          /\ \A k \in 1..Len(hs) : items[k].label = hs[k].text

C9_Witness ==
  /\ pc = "done"
  /\ Ran("tocBuild")
  /\ \E i \in 1..Len(container) :
       container[i].kind = "table" /\ container[i].styled
  /\ nav[1].items[1].label = Hi

C11_NoContainerIsNoOp ==
  ~hasContainer =>
    /\ pc \in {"loading", "done"}
    /\ log = <<>>
    /\ res = 0 /\ err = NoErr /\ ~transportFailed
    /\ container = HostContainer
    /\ nav = HostNav
    /\ highlighted = {} /\ mermaidRun = "none" /\ typeset = "none"

C11_Witness ==
  /\ ~hasContainer
  /\ pc = "done"
  /\ file = ContentFile
  /\ hasTocAuto /\ hasTocNav /\ hasMarked /\ hasHljs /\ hasMermaid /\ hasMathJax

\* C12: with a Render Target that carries no document reference the
\* pipeline performs no action: no fetch is issued, neither target is
\* mutated and no error message is shown.
C12_NoFileNoAction ==
  (hasContainer /\ file = NoFile) =>
    /\ ~Ran("fetch")
    /\ container = HostContainer
    /\ nav = HostNav

\* C13: at most one fetch is issued per page load and after an error
\* (fetch, render or stage failure) no step of the pipeline runs again.
C13_SingleAttemptNoRetry ==
  /\ \A e \in StageEvents \cup {"fetch", "error"} : Count(e) <= 1
  /\ Ran("error") => (pc = "done" /\ log[Len(log)] = "error")

C13_Witness ==
  /\ pc = "done"
  /\ log = <<"fetch", "render", "highlight", "error">>
  /\ hasMermaid /\ hasMathJax /\ hasTocAuto /\ hasTocNav


\* C14: in every synthesized TOC with at least one entry exactly the first
\* entry in document order is marked active and every other entry is not.
C14_OnlyFirstEntryActive ==
  \A n \in 1..Len(nav) :
    (nav[n].kind = "ul" /\ Len(nav[n].items) >= 1) =>
      /\ nav[n].items[1].active
      /\ \A k \in 2..Len(nav[n].items) : ~nav[n].items[k].active

C14_Witness ==
  /\ pc = "done"
  /\ nav[1].kind = "ul"
  /\ Len(nav[1].items) >= 2
  /\ nav[1].items[1].active
  /\ ~nav[1].items[2].active

Level123(e) == e.kind = "h" /\ e.level >= 1 /\ e.level <= 3
MdLevel123(b) == b.kind = "heading" /\ b.level >= 1 /\ b.level <= 3

\* C15: the synthesized TOC has exactly one entry per level-1/2/3 heading
\* of the Render Target and none for anything else (levels 4-6 excluded),
\* in document order; the i-th entry carries the i-th heading's text as
\* label and '#' followed by that heading's assigned id as href.
C15_OneEntryPerHeading ==
  (Ran("tocBuild") /\ ErrorMessages = {}) =>
    LET hs == SelectSeq(container, Level123)
        src == SelectSeq(md, MdLevel123)
        items == nav[1].items
    IN /\ Len(nav) = 1
       /\ Len(items) = Len(hs)
       /\ Len(items) = Len(src)
       /\ \A k \in 1..Len(items) :
            /\ items[k].label = hs[k].text
            /\ items[k].label = src[k].text
            /\ items[k].href = <<"#">> \o hs[k].id

C15_Witness ==
  /\ pc = "done"
  /\ Ran("tocBuild")
  /\ md = <<MdHeading(4, Hi), MdHeading(3, ABang)>>
  /\ Len(nav[1].items) = 1
  /\ nav[1].items[1].label = ABang
  /\ nav[1].items[1].href = <<"#", "a", "-", "b">>


\* C16: with the Navigation Target (the wrapper or its nav landmark) absent,
\* TOC synthesis is skipped silently: no exception, the Render Target keeps
\* the rendered document without error message, the other steps of the pass
\* are unaffected.
C16_MissingNavSkipsToc ==
  (pc = "done" /\ Ran("tocStart") /\ (~hasTocAuto \/ ~hasTocNav)) =>
    /\ ~Ran("tocBuild")
    /\ nav = HostNav
    /\ err = NoErr /\ ~Ran("error")
    /\ ErrorMessages = {}
    /\ Len(container) = Len(md)
    /\ Ran("render") /\ Ran("highlight") /\ Ran("convert") /\ Ran("tables")
    /\ hasMermaid => Ran("mermaidRun")
    /\ hasMathJax => Ran("typeset")

C16_Witness ==
  /\ pc = "done"
  /\ hasTocAuto /\ ~hasTocNav
  /\ Ran("tocScan")
  /\ md = <<MdHeading(1, Hi), MdTable(3)>>
  /\ container[1].kind = "h"
  /\ container[2].styled

\* C17: TOC synthesis replaces the previous content of the Navigation
\* Target: it then holds exactly the one new list and nothing of the prior
\* content, and no state in which it is empty or holds a partial list is
\* observable between event-loop tasks.
C17_NavReplacedAtomically ==
  /\ ~Ran("tocBuild") => nav = HostNav
  /\ Ran("tocBuild") =>
       /\ Len(nav) = 1
       /\ nav[1].kind = "ul"
       /\ Len(nav[1].items) >= 1
       /\ Len(nav[1].items) = Len(SelectSeq(md, MdLevel123))

C17_Witness ==
  /\ pc = "done"
  /\ Ran("tocBuild")
  /\ Len(nav) = 1
  /\ Len(nav[1].items) = 2
  /\ nav # HostNav

\* C18: for a document without level-1/2/3 headings the pass completes
\* without throwing, the Navigation Target ends empty or unchanged and the
\* Render Target shows the rendered document, not an error message.
C18_NoHeadingsNoToc ==
  (Delivered /\ SelectSeq(md, MdLevel123) = <<>>) =>
    /\ nav = HostNav \/ nav = <<>>
    /\ TocEntryCount = 0
    /\ ~Ran("tocBuild")
    /\ (pc = "done" /\ Ran("tocStart")) =>
         /\ err = NoErr /\ ~Ran("error")
         /\ ErrorMessages = {}
         /\ Len(container) = Len(md)

C18_Witness ==
  /\ pc = "done"
  /\ hasTocAuto /\ hasTocNav
  /\ md = <<MdHeading(4, Hi), MdTable(3)>>
  /\ Ran("tocScan")
  /\ nav = HostNav
  /\ container[1].kind = "h" /\ container[2].styled


IsTable(e) == e.kind = "table"
MdIsTable(b) == b.kind = "table"

\* C19: after the table styling stage every table of the rendered
\* document, and each of its cells, carries the inline border treatment and
\* the full-width layout, whatever optional capability is loaded.
C19_AllTablesStyled ==
  (Ran("tables") /\ ErrorMessages = {}) =>
    /\ Len(SelectSeq(container, IsTable)) = Len(SelectSeq(md, MdIsTable))
    /\ \A i \in 1..Len(container) :
         IsTable(container[i]) => (container[i].styled /\ container[i].cellBorders)

C19_Witness ==
  /\ pc = "done"
  /\ ~hasMermaid /\ ~hasMathJax
  /\ md = <<MdTable(3), MdTable(3)>>
  /\ container[1].styled /\ container[1].cellBorders
  /\ container[2].styled /\ container[2].cellBorders

\* C20 as stated: in a styled table a row is shaded exactly when its
\* zero-based index among the data rows is even (data rows 0, 2, 4, ...).
C20_EvenZeroBasedRowsShaded ==
  \A i \in 1..Len(container) :
    (IsTable(container[i]) /\ container[i].styled) =>
      \A r \in 0..(container[i].rows - 1) :
        ((r + 1) \in container[i].shaded) <=> (r % 2 = 0)

\* C20 amended: in a styled table a row is shaded exactly when its
\* one-based position among the rows of its section is even: the header row
\* and the first data row are not shaded, the data rows of zero-based index
\* 1, 3, 5, ... are.
C20_EvenSiblingPositionShaded ==
  \A i \in 1..Len(container) :
    (IsTable(container[i]) /\ container[i].styled) =>
      /\ ~container[i].headShaded
      /\ container[i].shaded \subseteq 1..container[i].rows
      /\ \A r \in 0..(container[i].rows - 1) :
           ((r + 1) \in container[i].shaded) <=> (r % 2 = 1)

C20_Witness ==
  /\ pc = "done"
  /\ ErrorMessages = {}
  /\ \E i \in 1..Len(container) :
       /\ IsTable(container[i])
       /\ container[i].styled
       /\ container[i].rows = 3
       /\ container[i].shaded = {2}


MdIsDiagram(b) == b.kind = "fence" /\ b.lang = MermaidTag

\* C21: after the diagram block converter no diagram-tagged code block is
\* left in the Render Target; each one is replaced in place, one for one, by
\* a plain container whose text is the raw diagram source, and the other
\* code blocks stay where they are.
C21_DiagramBlocksReplacedInPlace ==
  (Ran("convert") /\ ErrorMessages = {}) =>
    /\ Len(container) = Len(md)
    /\ \A i \in 1..Len(container) :
         /\ ~(container[i].kind = "pre" /\ container[i].cls = LanguageClass(MermaidTag))
         /\ MdIsDiagram(md[i]) =>
              /\ container[i].kind = "div"
              /\ container[i].cls = MermaidTag
              /\ container[i].text = md[i].text
         /\ (md[i].kind = "fence" /\ ~MdIsDiagram(md[i])) =>
              /\ container[i].kind = "pre"
              /\ container[i].cls = LanguageClass(md[i].lang)
              /\ container[i].text = md[i].text

C21_Witness ==
  /\ pc = "done"
  /\ ErrorMessages = {}
  /\ md = <<MdFence(JavaTag, Graph), MdFence(MermaidTag, Graph)>>
  /\ container[1].kind = "pre"
  /\ container[2].kind = "div" /\ container[2].text = Graph


\* C22: on fetch or render failure the whole content of the Render Target
\* is replaced by a single error message that contains the failure detail
\* (the HTTP status for a non-success response); nothing that was there
\* before remains next to it.
C22_ErrorReplacesContent ==
  (pc = "done" /\ hasContainer /\ (FetchFailure \/ ~hasMarked)) =>
    /\ Len(container) = 1
    /\ container[1].kind = "error"
    /\ NonSuccess =>
         container[1].detail = "Failed to load markdown: Error: HTTP " \o ToString(res)
    /\ transportFailed =>
         container[1].detail = "Failed to load markdown: TypeError: Failed to fetch"
    /\ (~FetchFailure /\ ~hasMarked) =>
         container[1].detail = "Failed to load markdown: ReferenceError: marked is not defined"

C22_Witness ==
  /\ pc = "done"
  /\ res = 500
  /\ container # HostContainer
  /\ Len(container) = 1
  /\ container[1].detail = "Failed to load markdown: Error: HTTP 500"


\* the TOC that a finished pass has injected for the fetched document
TocDue == hasTocAuto /\ hasTocNav /\ \E i \in 1..Len(md) : MdLevel123(md[i])

\* C23: math typesetting is fire-and-forget: once it has been started the
\* pass is complete, with the TOC injected, whatever the state of the
\* typesetting promise (pending, fulfilled or rejected), and a rejection
\* puts no error message on the page.
C23_TypesetNotAwaited ==
  (typeset # "none" /\ err = NoErr) =>
    /\ pc = "done"
    /\ ErrorMessages = {}
    /\ Ran("tocStart")
    /\ TocDue => (Ran("tocBuild") /\ TocEntryCount > 0)

C23_Witness ==
  /\ typeset = "pending"
  /\ pc = "done"
  /\ TocEntryCount > 0

\* C24: on a successful pass the fragment is assigned to the Render Target,
\* then the highlighter runs, then the diagram block converter, then the
\* table styling, each exactly once and in this order.
C24_StageOrder ==
  SuccessfulPass =>
    /\ Count("render") = 1 /\ Count("highlight") = 1
    /\ Count("convert") = 1 /\ Count("tables") = 1
    /\ Pos("highlight") = Pos("render") + 1
    /\ Pos("convert") = Pos("highlight") + 1
    /\ Pos("tables") = Pos("convert") + 1

C24_Witness ==
  /\ SuccessfulPass
  /\ Before("highlight", "convert")
  /\ md = <<MdFence(MermaidTag, Graph), MdTable(3)>>
  /\ highlighted # {}
  /\ container[1].kind = "div"
  /\ container[2].styled

\* C26: once the document text is available, rendering, the stages and the
\* TOC synthesis are one step: no state has the Render Target populated with
\* the TOC synthesis still to come, and the promises of the diagram
\* rendering and of the typesetting settle only after that step.
C26_RenderToTocIsOneStep ==
  /\ Ran("render") => pc \in {"catch", "done"}
  /\ (Ran("render") /\ err = NoErr) =>
       /\ pc = "done"
       /\ Ran("tocStart")
       /\ TocDue => (Ran("tocBuild") /\ nav # HostNav)
  /\ (mermaidRun \in {"fulfilled", "rejected"} /\ err = NoErr) => Ran("tocStart")
  /\ pc \in {"loading", "fetching", "then1", "reading", "then2"} =>
       (container = HostContainer /\ nav = HostNav)

C26_Witness ==
  /\ pc = "done"
  /\ hasContainer /\ ~hasMermaid /\ ~hasMathJax
  /\ Len(md) = 2 /\ MdLevel123(md[1])
  /\ Ran("render") /\ Ran("tocBuild")
  /\ nav # HostNav


\* The slug as the claim words it, computed in one pass over the trimmed
\* text: a whitespace run gives one separator, a character of Keep is kept
\* in lower case, any other character is dropped.
Alnum == Range(Lower) \cup Range(Upper) \cup Digits
Separator == "-"
WhiteSpace == {" ", "\t", "\n"}

RefTrimmed(text) ==
  LET solid == {i \in 1..Len(text) : text[i] \notin WhiteSpace}
  IN IF solid = {} THEN <<>>
     ELSE SubSeq(text, CHOOSE i \in solid : \A j \in solid : i <= j,
                       CHOOSE i \in solid : \A j \in solid : i >= j)

RECURSIVE RefWalk(_, _, _)
RefWalk(s, inRun, Keep) ==
  IF s = <<>> THEN <<>>
  ELSE LET c == Head(s)
       IN IF c \in WhiteSpace
            THEN (IF inRun THEN <<>> ELSE <<Separator>>) \o RefWalk(Tail(s), TRUE, Keep)
          ELSE (IF c \in Keep THEN <<ToLowerChar(c)>> ELSE <<>>)
                 \o RefWalk(Tail(s), FALSE, Keep)

RefSlug(text, Keep) == RefWalk(RefTrimmed(text), FALSE, Keep)

IdsFollow(Keep) ==
  (Ran("tocBuild") /\ ErrorMessages = {}) =>
    \A i \in 1..Len(md) :
      MdLevel123(md[i]) =>
        container[i].id = IF md[i].id # <<>> THEN md[i].id
                          ELSE RefSlug(md[i].text, Keep)

\* C25 as stated: a heading that has a non-empty id keeps it; any other
\* processed heading gets the slug of its text in which only letters, digits
\* and the separator survive.
C25_SlugKeepsAlnumAndSeparator == IdsFollow(Alnum \cup {Separator})

\* C25: a heading that has a non-empty id keeps it; any other processed
\* heading gets the trimmed text with each whitespace run replaced by one
\* hyphen, every character other than an ASCII letter, a digit, the
\* underscore and the hyphen removed, and the result lowercased.
C25_SlugKeepsWordAndSeparator == IdsFollow(Alnum \cup {"_", Separator})

C25_Witness ==
  /\ Ran("tocBuild")
  /\ md = <<MdHeading(2, UnderB), MdHtmlHeading(2, Hi, IdX)>>
  /\ container[1].id = <<"a", "_", "b">>
  /\ container[2].id = IdX


\* C27: the stages and capability invocations act only on the Render
\* Target subtree: the elements of the page outside the Render Target and
\* the Navigation Target are the ones the host page provided, unchanged.
C27_OutsideUntouched == outside = HostOutside


\* C28: the diagram marker is matched case-sensitively: a code block is
\* converted exactly when its language tag is the marker itself, and a block
\* whose tag differs from it only in letter case stays an ordinary code
\* block with its class and text.
C28_MarkerCaseSensitive ==
  (Ran("convert") /\ ErrorMessages = {}) =>
    \A i \in 1..Len(md) :
      md[i].kind = "fence" =>
        /\ container[i].kind = "div" <=> md[i].lang = MermaidTag
        /\ md[i].lang = MermaidCapTag =>
             /\ container[i].kind = "pre"
             /\ container[i].cls = LanguageClass(MermaidCapTag)
             /\ container[i].text = md[i].text

C28_Witness ==
  /\ pc = "done"
  /\ md = <<MdFence(MermaidCapTag, Graph), MdFence(MermaidTag, Graph)>>
  /\ container[1].kind = "pre"
  /\ container[2].kind = "div"


\* C29: the Navigation Target is rewritten exactly when the pass succeeded,
\* #toc-content-auto and #TableOfContents exist and the document has a
\* level-1/2/3 heading; otherwise its content is what the host page
\* provided.
C29_NavRewrittenIff ==
  /\ nav # HostNav <=>
       (SuccessfulPass /\ err = NoErr /\ hasTocAuto /\ hasTocNav
          /\ \E i \in 1..Len(md) : MdLevel123(md[i]))
  /\ nav # HostNav => (Len(nav) = 1 /\ nav[1].kind = "ul")

C29_Witness ==
  /\ pc = "done"
  /\ md = <<MdHeading(3, ABang)>>
  /\ nav # HostNav
  /\ nav[1].kind = "ul"

\* C30: heading ids are assigned only while the TOC is built: when the
\* wrapper or the nav landmark is absent every heading of the Render Target
\* has the id it was rendered with, and a heading below level 3 always has.
C30_IdsOnlyWithToc ==
  (Ran("render") /\ ErrorMessages = {}) =>
    \A i \in 1..Len(md) :
      (md[i].kind = "heading" /\ (~(hasTocAuto /\ hasTocNav) \/ ~MdLevel123(md[i]))) =>
        (container[i].kind = "h" /\ container[i].id = md[i].id)

C30_Witness ==
  /\ pc = "done"
  /\ hasTocAuto /\ ~hasTocNav
  /\ Ran("tocScan") /\ ~Ran("tocBuild")
  /\ md = <<MdHeading(1, Hi), MdHeading(3, ABang)>>
  /\ container[1].id = <<>> /\ container[2].id = <<>>


\* C31: whenever the Render Target shows the error message, the Navigation
\* Target has the content the host page provided, whichever step failed:
\* the fetch, the markup rendering or a later step that throws.
C31_ErrorLeavesNavUntouched ==
  ErrorMessages # {} => (nav = HostNav /\ TocEntryCount = 0)

C31_Witness ==
  /\ pc = "done"
  /\ ErrorMessages # {}
  /\ err = "Error: mermaid.run"
  /\ hasTocAuto /\ hasTocNav
  /\ \E i \in 1..Len(md) : MdLevel123(md[i])
  /\ nav = HostNav


\* C32: every id assigned to a heading during TOC synthesis is a non-empty
\* string and no TOC entry has the bare href "#", also for a heading whose
\* text has only characters that the slug derivation strips.
C32_AssignedIdsNonEmpty ==
  (Ran("tocBuild") /\ ErrorMessages = {}) =>
    /\ \A i \in 1..Len(md) : MdLevel123(md[i]) => container[i].id # <<>>
    /\ \A n \in 1..Len(nav) : \A k \in 1..Len(nav[n].items) :
         nav[n].items[k].href # <<"#">>

\* the TOC step run once more on the page as the finished pass left it
SecondTocRun ==
  StepToc([container |-> container, nav |-> nav, log |-> log,
           highlighted |-> highlighted, outside |-> outside,
           mermaidRun |-> mermaidRun, typeset |-> typeset, err |-> NoErr])

\* C33: TOC synthesis is idempotent: a second run over the Render Target
\* whose headings carry the ids of the first run assigns the same ids and
\* leaves the Navigation Target with one list of the same entries (labels,
\* hrefs, order, active mark).
C33_TocIdempotent ==
  (Ran("tocBuild") /\ err = NoErr) =>
    /\ SecondTocRun.container = container
    /\ SecondTocRun.nav = nav
    /\ Len(SecondTocRun.nav) = 1
    /\ SecondTocRun.err = NoErr

C33_Witness ==
  /\ pc = "done"
  /\ Ran("tocBuild")
  /\ md = <<MdHtmlHeading(2, Hi, IdX), MdHeading(3, ABang)>>
  /\ TocEntryCount = 2
  /\ container[2].id = <<"a", "-", "b">>


\* the Render Target holds the rendered document or the error message
Rendered == Ran("render") /\ ErrorMessages = {} /\ Len(container) = Len(md)
ShowsError == Len(container) = 1 /\ container[1].kind = "error"
Terminal == pc = "done" /\ (Rendered \/ ShowsError)

\* C34: with a Render Target present and a fetch that settles, the pipeline
\* reaches a terminal state where the Render Target holds the rendered
\* document or the error message; from then on neither the Render Target
\* nor the Navigation Target changes; and as long as the fetch has not
\* settled the Render Target is the one the host page provided.
C34_ReachesTerminalAndStays ==
  /\ (hasContainer /\ pc = "loading") ~> Terminal
  /\ [][pc = "done" => (pc' = "done" /\ container' = container /\ nav' = nav)]_vars
  /\ [](pc \in {"loading", "fetching"} => (container = HostContainer /\ nav = HostNav))

C34_Witness ==
  /\ Terminal
  /\ Rendered
  /\ res = 200
  /\ mermaidRun = "pending"
  /\ typeset = "rejected"


\* a triggered diagram rendering or typesetting has failed; when the
\* typesetting was triggered, or cannot be, no step of the pass has thrown
AsyncFailed ==
  \/ typeset = "rejected"
  \/ mermaidRun = "rejected" /\ (~hasMathJax \/ typeset # "none")

\* C35: a failure of the diagram rendering or of the typesetting after it
\* was triggered does not move the pipeline into its error state: the step
\* in which the promise is rejected changes neither the Render Target nor the
\* Navigation Target, and afterwards the rendered content and the TOC are
\* still in place with no error message.
C35_AsyncFailureIsNotAnError ==
  /\ [][((mermaidRun' = "rejected" /\ mermaidRun # "rejected")
           \/ (typeset' = "rejected" /\ typeset # "rejected")) =>
          (pc' = pc /\ err' = err /\ container' = container /\ nav' = nav)]_vars
  /\ [](AsyncFailed =>
          /\ pc = "done" /\ err = NoErr
          /\ ErrorMessages = {} /\ Len(container) = Len(md)
          /\ TocDue => TocEntryCount > 0)

C35_Witness ==
  /\ pc = "done"
  /\ mermaidRun = "rejected" /\ typeset = "rejected"
  /\ ErrorMessages = {}
  /\ TocEntryCount > 0

\* the id and the TOC that the fetched document determines
ExpectedId(b) ==
  IF b.id # <<>> THEN b.id ELSE RefSlug(b.text, Alnum \cup {"_", Separator})

ExpectedToc ==
  LET hs == SelectSeq(md, MdLevel123)
  IN <<[kind |-> "ul",
        items |-> [k \in 1..Len(hs) |->
                     [label |-> hs[k].text,
                      href |-> <<"#">> \o ExpectedId(hs[k]),
                      active |-> (k = 1)]]]>>

\* C36: the synthesized TOC (ids, labels, order, active mark) is determined
\* by the document alone: it is the same whatever the state of the diagram
\* rendering and of the typesetting, completed in either order, failed or
\* still pending.
C36_TocIndependentOfAsync ==
  (pc = "done" /\ Ran("render") /\ ErrorMessages = {} /\ TocDue) =>
    /\ nav = ExpectedToc
    /\ \A i \in 1..Len(md) : MdLevel123(md[i]) => container[i].id = ExpectedId(md[i])

C36_Witness ==
  /\ pc = "done"
  /\ mermaidRun = "fulfilled" /\ typeset = "pending"
  /\ md = <<MdHeading(1, Hi), MdHeading(3, ABang)>>
  /\ nav = ExpectedToc
  /\ TocEntryCount = 2

====
